---- MODULE Spec2Model ----
(***************************************************************************)
(* A model of labs/12/homr_dataset.py: the TFRecord loader                 *)
(* (HOMRDataset._load_data with its nested get_value and                   *)
(* get_value_of_kind), the random access of HOMRDataset.Dataset, and the   *)
(* evaluation (EditDistanceMetric.update, HOMRDataset.evaluate).           *)
(*                                                                         *)
(* Offsets are 0-based as in the Python source; At(data, i) is data[i].    *)
(* A 64-bit integer is kept as its ten 7-bit groups (least significant     *)
(* first), so that the full width of np.int64 is represented.              *)
(***************************************************************************)
EXTENDS Integers, Sequences, FiniteSets, TLC

VARIABLES
    \* ---- get_value called on its own (VarintSpec)
    vin,        \* the value whose encoding is decoded (its 7-bit groups)
    vdata,      \* the buffer: padding, the encoding, one trailing byte
    vstart,     \* the cursor before the call
    vres,       \* the call's outcome
    vpc         \* "idle" | "called"

VARIABLES
    \* ---- _load_data(path, items) and the Dataset built on it (Spec)
    items,      \* the record count the caller asks for
    processed,  \* the records decoded so far (the for loop's counter)
    pc,         \* "frame" | "fields" | "loaded" | "ready" | "fail"
    file,       \* the bytes of the file from the current frame's start on
    fpos,       \* the bytes read from the file so far
    data,       \* the payload of the record being decoded
    offset,     \* the cursor in data
    arrays,     \* key -> [typecode, elems]
    indices,    \* key -> the index array
    exc,        \* the exception that ended the load, with the byte it names
    corpus,     \* the records the file held so far, as they were written
    truncated,  \* the file ended inside the frame that was read last
    snap,       \* arrays and indices as they were when the record's frame was read
    on_demand,  \* Dataset's decode_on_demand
    self_data,  \* Dataset._data: the decoded examples of the eager mode
    got,        \* the outcome of the last __getitem__
    predictions,\* the predictions handed to evaluate
    ev          \* the outcome of evaluate

VARIABLES
    \* ---- EditDistanceMetric.update called on its own (MetricSpec)
    ignore_index,   \* <<>> for None, <<v>> for the ignore index v
    y_preds,        \* the predicted sequences of the call
    y_trues,        \* the gold sequences of the call
    recorded,       \* the scores the mean has accumulated
    mpc             \* "off" | "new" | "updated"

loadVars == <<items, processed, pc, file, fpos, data, offset, arrays, indices, exc,
              corpus, truncated, snap>>

datasetVars == <<on_demand, self_data, got>>

evalVars == <<predictions, ev>>

metricVars == <<ignore_index, y_preds, y_trues, recorded, mpc>>

varintVars == <<vin, vdata, vstart, vres, vpc>>

vars == <<loadVars, datasetVars, evalVars, metricVars, varintVars>>

(***************************************************************************)
(* Bytes and bits                                                          *)
(***************************************************************************)

\* F applied to the value of v: v is evaluated once, whatever F does with it.
Bind(v, F(_)) == CHOOSE y \in {F(x) : x \in {v}} : TRUE

\* data[i] of a bytes object, 0-based.
At(buf, i) == buf[i + 1]

\* b & 0x7F
Low7(b) == b % 128

\* b & 0x80, as a truth value
HighBit(b) == (b % 256) >= 128

\* a | b on 7-bit operands
RECURSIVE BitOr(_, _)
BitOr(a, b) ==
    IF a = 0 THEN b
    ELSE IF b = 0 THEN a
    ELSE 2 * BitOr(a \div 2, b \div 2) + (IF (a % 2 = 1) \/ (b % 2 = 1) THEN 1 ELSE 0)

\* The number of 7-bit groups of a 64-bit integer: ceil(64 / 7).
NumGroups == 10

\* np.int64(0) as its groups.
ZeroGroups == [k \in 1..NumGroups |-> 0]

\* (x << (7 * k)) is a Python int; value |= it keeps value an np.int64 only
\* when the operand fits in 63 bits, otherwise the operation raises
\* (OverflowError under NumPy 2, TypeError for the int64/uint64 pair under
\* NumPy 1): group k = 9 holds bit 63 and above.
FitsInt64(x, k) == x = 0 \/ k < NumGroups - 1

\* value | (x << (7 * k)) for an operand that fits.
OrShift(value, x, k) ==
    IF k < NumGroups THEN [value EXCEPT ![k + 1] = BitOr(@, x)] ELSE value

(***************************************************************************)
(* get_value, lines 87-92                                                  *)
(***************************************************************************)

\* The shift of the mutated decoder: 7 * offset instead of 7 * (offset - start).
ShiftGroupAbsolute(pos, start) == pos

\* The group a continuation byte lands in: (7 * (offset - start)) / 7.
ShiftGroup(pos, start) == pos - start

\* The while loop of get_value. An index at or past len(data) raises IndexError.
RECURSIVE GetValueLoop(_, _, _, _)
GetValueLoop(buf, start, pos, value) ==
    IF HighBit(At(buf, pos - 1))
    THEN IF pos >= Len(buf)
         THEN [ok |-> FALSE, err |-> "IndexError", value |-> value, offset |-> pos]
         ELSE LET x == Low7(At(buf, pos))
                  k == ShiftGroup(pos, start)
              IN  IF ~FitsInt64(x, k)
                  THEN [ok |-> FALSE, err |-> "OverflowError", value |-> value,
                        offset |-> pos]
                  ELSE GetValueLoop(buf, start, pos + 1, OrShift(value, x, k))
    ELSE [ok |-> TRUE, err |-> "", value |-> value, offset |-> pos]

\* get_value(): the value read at offset and the cursor after it.
GetValue(buf, pos) ==
    IF pos >= Len(buf)
    THEN [ok |-> FALSE, err |-> "IndexError", value |-> ZeroGroups, offset |-> pos]
    ELSE GetValueLoop(buf, pos, pos + 1, OrShift(ZeroGroups, Low7(At(buf, pos)), 0))

\* An np.int64 that is small enough as a number: the sum of group * 128^k.
RECURSIVE ToNatFrom(_, _)
ToNatFrom(groups, k) ==
    IF k > NumGroups THEN 0 ELSE groups[k] + 128 * ToNatFrom(groups, k + 1)

ToNat(groups) == ToNatFrom(groups, 1)

RECURSIVE DivPow128(_, _)
DivPow128(m, k) == IF k = 0 THEN m ELSE DivPow128(m \div 128, k - 1)

\* The groups of a number.
FromNat(m) == [k \in 1..NumGroups |-> DivPow128(m, k - 1) % 128]

Min(a, b) == IF a < b THEN a ELSE b

\* data[a:b] of a bytes object: the slice is clipped to the object, never an error.
Slice(buf, a, b) == SubSeq(buf, a + 1, Min(b, Len(buf)))

(***************************************************************************)
(* get_value_of_kind, lines 94-97 (assert statements are executed)         *)
(***************************************************************************)

Raised(e, pos) == [ok |-> FALSE, err |-> e, value |-> 0, offset |-> pos]

GetValueOfKind(buf, pos, kind) ==
    IF pos >= Len(buf) THEN Raised("IndexError", pos)
    ELSE IF At(buf, pos) # kind THEN Raised("AssertionError", pos)
    ELSE Bind(GetValue(buf, pos + 1), LAMBDA r :
            IF r.ok
            THEN [ok |-> TRUE, err |-> "", value |-> ToNat(r.value), offset |-> r.offset]
            ELSE Raised(r.err, r.offset))

(***************************************************************************)
(* The base-128 continuation-bit encoding (the inverse the decoder is      *)
(* checked against)                                                        *)
(***************************************************************************)

\* The number of bytes of the canonical encoding: up to the last non-zero group.
RECURSIVE EncLenFrom(_, _)
EncLenFrom(groups, k) ==
    IF k = 1 \/ groups[k] # 0 THEN k ELSE EncLenFrom(groups, k - 1)

EncLen(groups) == EncLenFrom(groups, NumGroups)

\* Every byte but the last carries the continuation bit.
EncodeVarint(groups) ==
    Bind(EncLen(groups), LAMBDA len :
        [i \in 1..len |-> IF i < len THEN groups[i] + 128 ELSE groups[i]])

\* v < 2^63: bit 63 (the low bit of the tenth group) is clear.
BelowInt64Max(groups) == groups[NumGroups] = 0

(***************************************************************************)
(* array.array: a typecode and its elements                                *)
(*   "B": bytes; "q": 64-bit integers; "f": 32-bit floats, each kept as    *)
(*   its four bytes                                                        *)
(***************************************************************************)

\* {0x0A: "B", 0x1A: "q", 0x12: "f"}.get(data[offset], "B"), line 117
TypecodeFor(b) ==
    CASE b = 10 -> "B"
      [] b = 26 -> "q"
      [] b = 18 -> "f"
      [] OTHER  -> "B"

ItemSize(typecode) ==
    CASE typecode = "B" -> 1
      [] typecode = "q" -> 8
      [] typecode = "f" -> 4

\* Little-endian bytes as a number (the inputs keep it small).
RECURSIVE FromLE(_)
FromLE(bytes) ==
    IF bytes = <<>> THEN 0 ELSE Head(bytes) + 256 * FromLE(Tail(bytes))

\* The items that a run of bytes holds, for a typecode.
ItemsOf(typecode, bytes) ==
    [i \in 1..(Len(bytes) \div ItemSize(typecode)) |->
        CASE typecode = "B" -> bytes[i]
          [] typecode = "q" -> FromLE(SubSeq(bytes, (i - 1) * 8 + 1, i * 8))
          [] typecode = "f" -> SubSeq(bytes, (i - 1) * 4 + 1, i * 4)]

\* array.frombytes(bytes): ValueError unless the length is a multiple of the
\* item size.
FromBytes(arr, bytes) ==
    IF Len(bytes) % ItemSize(arr.typecode) # 0
    THEN [ok |-> FALSE, err |-> "ValueError", arr |-> arr]
    ELSE [ok |-> TRUE, err |-> "",
          arr |-> [arr EXCEPT !.elems = @ \o ItemsOf(arr.typecode, bytes)]]

\* array.append(np.int64): "B" takes 0..255 (OverflowError otherwise), "q" the
\* integer, "f" the integer converted to a float.
AppendValue(arr, v) ==
    CASE arr.typecode = "B" ->
            IF v <= 255
            THEN [ok |-> TRUE, err |-> "", arr |-> [arr EXCEPT !.elems = Append(@, v)]]
            ELSE [ok |-> FALSE, err |-> "OverflowError", arr |-> arr]
      [] arr.typecode = "q" ->
            [ok |-> TRUE, err |-> "", arr |-> [arr EXCEPT !.elems = Append(@, v)]]
      [] arr.typecode = "f" ->
            [ok |-> TRUE, err |-> "",
             arr |-> [arr EXCEPT !.elems = Append(@, <<"float", v>>)]]

(***************************************************************************)
(* One pass of the while loop of _load_data, lines 111-134                 *)
(***************************************************************************)

\* What a pass leaves: the store as it is when the pass ends or raises, and
\* the dispatch byte it saw (0 before the dispatch point).
Pass(ok, e, tag, pos, store, idx) ==
    [ok |-> ok, err |-> e, tag |-> tag, offset |-> pos,
     arrays |-> store, indices |-> idx]

\* Both headers read whatever the first one's value is.
TwoHeadersAlways(buf, pos, kind) ==
    Bind(GetValueOfKind(buf, pos, kind), LAMBDA a :
        IF ~a.ok THEN a ELSE GetValueOfKind(buf, a.offset, 10))

\* length = get_value_of_kind(kind) and get_value_of_kind(0x0A): the second
\* header is read only when the first one's value is not 0.
TwoHeaders(buf, pos, kind) ==
    Bind(GetValueOfKind(buf, pos, kind), LAMBDA a :
        IF ~a.ok \/ a.value = 0 THEN a ELSE GetValueOfKind(buf, a.offset, 10))

Branch(ok, e, pos, arr) == [ok |-> ok, err |-> e, offset |-> pos, arr |-> arr]

\* Line 122: arrays[key].frombytes(data[offset:offset + length]); offset += length
BytesBranch(buf, pos, length, arr) ==
    Bind(FromBytes(arr, Slice(buf, pos, pos + length)), LAMBDA a :
        IF a.ok THEN Branch(TRUE, "", pos + length, a.arr)
        ELSE Branch(FALSE, a.err, pos, arr))

\* Lines 126-127: while offset < target_offset: arrays[key].append(get_value())
RECURSIVE VarintLoop(_, _, _, _)
VarintLoop(buf, pos, target, arr) ==
    IF pos < target
    THEN Bind(GetValue(buf, pos), LAMBDA r :
            IF ~r.ok THEN Branch(FALSE, r.err, r.offset, arr)
            ELSE Bind(AppendValue(arr, ToNat(r.value)), LAMBDA a :
                    IF ~a.ok THEN Branch(FALSE, a.err, r.offset, arr)
                    ELSE VarintLoop(buf, r.offset, target, a.arr)))
    ELSE Branch(TRUE, "", pos, arr)

\* Lines 125-127: target_offset = offset + length, then the loop
VarintBranch(buf, pos, length, arr) == VarintLoop(buf, pos, pos + length, arr)

\* np.frombuffer(data, "<f4", length >> 2, offset).astype(np.float32).tobytes():
\* ValueError when the offset is past the buffer or the buffer is too short.
FloatBytes(buf, pos, length) ==
    IF pos > Len(buf) \/ Len(buf) - pos < 4 * (length \div 4)
    THEN [ok |-> FALSE, err |-> "ValueError", bytes |-> <<>>]
    ELSE [ok |-> TRUE, err |-> "", bytes |-> Slice(buf, pos, pos + 4 * (length \div 4))]

\* Lines 130-131: the floats appended; offset += length
FloatBranch(buf, pos, length, arr) ==
    Bind(FloatBytes(buf, pos, length), LAMBDA f :
        IF ~f.ok THEN Branch(FALSE, f.err, pos, arr)
        ELSE Bind(FromBytes(arr, f.bytes), LAMBDA a :
                IF a.ok THEN Branch(TRUE, "", pos + length, a.arr)
                ELSE Branch(FALSE, a.err, pos, arr)))

\* The index entry is the count of the elements this value added.
CloseExampleDelta(index, before, arr) == Append(index, Len(arr.elems) - Len(before.elems))

\* Line 134: indices[key].append(len(arrays[key]))
CloseExample(index, before, arr) == Append(index, Len(arr.elems))

\* Lines 120-134: the value branch and the index entry. The store holds the key.
ValueBranch(buf, pos, key, store, idx) ==
    Bind(At(buf, pos), LAMBDA tag :
        IF tag \notin {10, 26, 18}
        THEN Pass(FALSE, "UnsupportedTag", tag, pos, store, idx)
        ELSE Bind(TwoHeaders(buf, pos, tag), LAMBDA h :
            IF ~h.ok THEN Pass(FALSE, h.err, tag, h.offset, store, idx)
            ELSE Bind(CASE tag = 10 -> BytesBranch(buf, h.offset, h.value, store[key])
                        [] tag = 26 -> VarintBranch(buf, h.offset, h.value, store[key])
                        [] tag = 18 -> FloatBranch(buf, h.offset, h.value, store[key]),
                      LAMBDA b :
                IF b.ok
                THEN Pass(TRUE, "", tag, b.offset, [store EXCEPT ![key] = b.arr],
                          [idx EXCEPT ![key] = CloseExample(@, store[key], b.arr)])
                ELSE Pass(FALSE, b.err, tag, b.offset,
                          [store EXCEPT ![key] = b.arr], idx))))

\* key.decode("utf-8") of ASCII bytes: the key is kept as its bytes; a byte with
\* the high bit set is taken as not decodable (no multi-byte key is modelled).
Utf8Ok(bytes) == \A i \in 1..Len(bytes) : bytes[i] < 128

\* Every occurrence of a key taken as its first.
IsNewKeyAlways(key, store) == TRUE

\* Line 116: key not in arrays
IsNewKey(key, store) == key \notin DOMAIN store

\* Lines 116-118: a new key gets an empty array, typed by the dispatch byte b,
\* and the index [0].
WithKey(store, idx, key, b) ==
    IF IsNewKey(key, store)
    THEN [arrays  |-> (key :> [typecode |-> TypecodeFor(b), elems |-> <<>>]) @@ store,
          indices |-> (key :> <<0>>) @@ idx]
    ELSE [arrays |-> store, indices |-> idx]

\* Lines 112-115: the field header, the key, the tag of the value union. The
\* cursor is left at the value dispatch point.
FieldHead(buf, pos) ==
    Bind(GetValueOfKind(buf, pos, 10), LAMBDA h1 :
      IF ~h1.ok THEN [ok |-> FALSE, err |-> h1.err, key |-> <<>>, offset |-> h1.offset]
      ELSE Bind(GetValueOfKind(buf, h1.offset, 10), LAMBDA h2 :
        IF ~h2.ok THEN [ok |-> FALSE, err |-> h2.err, key |-> <<>>, offset |-> h2.offset]
        ELSE Bind(Slice(buf, h2.offset, h2.offset + h2.value), LAMBDA key :
          IF ~Utf8Ok(key)
          THEN [ok |-> FALSE, err |-> "UnicodeDecodeError", key |-> <<>>,
                offset |-> h2.offset]
          ELSE Bind(GetValueOfKind(buf, h2.offset + h2.value, 18), LAMBDA h3 :
            [ok |-> h3.ok, err |-> h3.err, key |-> key, offset |-> h3.offset]))))

\* Lines 112-134: one pass. data[offset] at the dispatch point raises IndexError
\* when the payload ends there, before the store is touched.
DecodeField(buf, pos, store, idx) ==
    Bind(FieldHead(buf, pos), LAMBDA fh :
      IF ~fh.ok THEN Pass(FALSE, fh.err, 0, fh.offset, store, idx)
      ELSE IF fh.offset >= Len(buf)
           THEN Pass(FALSE, "IndexError", 0, fh.offset, store, idx)
      ELSE Bind(WithKey(store, idx, fh.key, At(buf, fh.offset)), LAMBDA s :
              ValueBranch(buf, fh.offset, fh.key, s.arrays, s.indices)))

(***************************************************************************)
(* The record framing, lines 102-110                                       *)
(***************************************************************************)

\* file.read(k) without the assert on the length read.
ReadUnchecked(stream, pos, k) ==
    [ok |-> TRUE, bytes |-> Slice(stream, pos, pos + k)]

\* x = file.read(k); assert len(x) == k
ReadExact(stream, pos, k) ==
    Bind(Slice(stream, pos, pos + k), LAMBDA bytes :
        [ok |-> Len(bytes) = k, bytes |-> bytes])

\* struct.unpack("<Q", length)
UnpackQ(bytes) == FromLE(bytes)

Framed(ok, e, buf, pos, consumed) ==
    [ok |-> ok, err |-> e, data |-> buf, offset |-> pos, consumed |-> consumed]

\* Lines 108-110: offset = 0; the envelope header; the assert on its length.
Envelope(buf, consumed) ==
    Bind(GetValueOfKind(buf, 0, 10), LAMBDA h :
        IF ~h.ok THEN Framed(FALSE, h.err, buf, h.offset, consumed)
        ELSE IF Len(buf) - h.offset # h.value
             THEN Framed(FALSE, "AssertionError", buf, h.offset, consumed)
        ELSE Framed(TRUE, "", buf, h.offset, consumed))

\* Lines 102-110: one frame read from the stream, then the envelope header of
\* its payload. `consumed` counts the bytes the reads returned.
ReadRecord(stream) ==
    Bind(ReadExact(stream, 0, 8), LAMBDA lenb :
      IF ~lenb.ok THEN Framed(FALSE, "AssertionError", <<>>, 0, Len(lenb.bytes))
      ELSE Bind(UnpackQ(lenb.bytes), LAMBDA length :
        Bind(ReadExact(stream, 8, 4), LAMBDA crc1 :
          IF ~crc1.ok
          THEN Framed(FALSE, "AssertionError", <<>>, 0, 8 + Len(crc1.bytes))
          ELSE Bind(ReadExact(stream, 12, length), LAMBDA body :
            IF ~body.ok
            THEN Framed(FALSE, "AssertionError", body.bytes, 0, 12 + Len(body.bytes))
            ELSE Bind(ReadExact(stream, 12 + length, 4), LAMBDA crc2 :
              IF ~crc2.ok
              THEN Framed(FALSE, "AssertionError", body.bytes, 0,
                          12 + length + Len(crc2.bytes))
              ELSE Envelope(body.bytes, 16 + length))))))

(***************************************************************************)
(* Dataset._decode and Dataset.__getitem__, lines 36-53                    *)
(***************************************************************************)

\* "image" and "marks" as UTF-8 bytes.
KeyImage == <<105, 109, 97, 103, 101>>
KeyMarks == <<109, 97, 114, 107, 115>>

RECURSIVE ToLE(_, _)
ToLE(m, size) == IF size = 0 THEN <<>> ELSE <<m % 256>> \o ToLE(m \div 256, size - 1)

\* The bytes an array exposes through the buffer protocol.
RECURSIVE ByteView(_, _)
ByteView(typecode, elems) ==
    IF elems = <<>> THEN <<>>
    ELSE (CASE typecode = "B" -> <<Head(elems)>>
            [] typecode = "q" -> ToLE(Head(elems), 8)
            [] typecode = "f" -> Head(elems))
         \o ByteView(typecode, Tail(elems))

\* torch.frombuffer(buffer, dtype, offset, count), offset in bytes: ValueError
\* for an empty buffer, a count of 0 or a range that leaves the buffer.
FromBuffer(arr, dtypecode, byteOffset, count) ==
    Bind(ByteView(arr.typecode, arr.elems), LAMBDA bytes :
        IF Len(bytes) = 0 \/ count <= 0
              \/ byteOffset + count * ItemSize(dtypecode) > Len(bytes)
        THEN [ok |-> FALSE, err |-> "ValueError", elems |-> <<>>]
        ELSE [ok |-> TRUE, err |-> "",
              elems |-> ItemsOf(dtypecode,
                                Slice(bytes, byteOffset,
                                      byteOffset + count * ItemSize(dtypecode)))])

Example(ok, e, image, marks) ==
    [ok |-> ok, err |-> e, image |-> image, marks |-> marks]

\* The "marks" entry of _decode, lines 50-52: an empty tensor for a count of 0,
\* else count int64 elements from byte offset indices["marks"][index] << 3.
DecodeMarks(store, idx, index, image) ==
    IF KeyMarks \notin DOMAIN idx THEN Example(FALSE, "KeyError", image, <<>>)
    ELSE IF index + 2 > Len(idx[KeyMarks]) THEN Example(FALSE, "IndexError", image, <<>>)
    ELSE IF idx[KeyMarks][index + 2] - idx[KeyMarks][index + 1] = 0
         THEN Example(TRUE, "", image, <<>>)
    ELSE Bind(FromBuffer(store[KeyMarks], "q", idx[KeyMarks][index + 1] * 8,
                         idx[KeyMarks][index + 2] - idx[KeyMarks][index + 1]),
              LAMBDA m : IF m.ok THEN Example(TRUE, "", image, m.elems)
                         ELSE Example(FALSE, m.err, image, <<>>))

\* _decode(data, indices, index): the image is the byte range handed to
\* torchvision.io.decode_image, the marks are the int64 tensor's elements.
\* indices[k][:-1][index] and indices[k][1:][index] raise IndexError unless
\* index < len(indices[k]) - 1.
Decode(store, idx, index) ==
    IF KeyImage \notin DOMAIN store THEN Example(FALSE, "KeyError", <<>>, <<>>)
    ELSE IF index + 2 > Len(idx[KeyImage]) THEN Example(FALSE, "IndexError", <<>>, <<>>)
    ELSE Bind(FromBuffer(store[KeyImage], "B", idx[KeyImage][index + 1],
                         idx[KeyImage][index + 2] - idx[KeyImage][index + 1]),
              LAMBDA img : IF ~img.ok THEN Example(FALSE, img.err, <<>>, <<>>)
                           ELSE DecodeMarks(store, idx, index, img.elems))

\* A comprehension that decodes example 0 for every i.
RECURSIVE DecodeAllFirst(_, _, _, _)
DecodeAllFirst(store, idx, size, i) ==
    IF i >= size THEN [ok |-> TRUE, err |-> "", list |-> <<>>]
    ELSE Bind(Decode(store, idx, 0), LAMBDA e :
            IF ~e.ok THEN [ok |-> FALSE, err |-> e.err, list |-> <<>>]
            ELSE Bind(DecodeAllFirst(store, idx, size, i + 1), LAMBDA rest :
                    IF ~rest.ok THEN rest
                    ELSE [ok |-> TRUE, err |-> "", list |-> <<e>> \o rest.list]))

\* The list comprehension of the constructor, line 31: every example decoded,
\* or the first exception.
RECURSIVE DecodeAll(_, _, _, _)
DecodeAll(store, idx, size, i) ==
    IF i >= size THEN [ok |-> TRUE, err |-> "", list |-> <<>>]
    ELSE Bind(Decode(store, idx, i), LAMBDA e :
            IF ~e.ok THEN [ok |-> FALSE, err |-> e.err, list |-> <<>>]
            ELSE Bind(DecodeAll(store, idx, size, i + 1), LAMBDA rest :
                    IF ~rest.ok THEN rest
                    ELSE [ok |-> TRUE, err |-> "", list |-> <<e>> \o rest.list]))

\* __getitem__(index), index >= 0: `if self._data` is false for None and for an
\* empty list; the eager dataset sets neither _arrays nor _indices.
GetItem(cache, demand, store, idx, index) ==
    IF cache # <<>>
    THEN IF index < Len(cache) THEN cache[index + 1]
         ELSE Example(FALSE, "IndexError", <<>>, <<>>)
    ELSE IF demand THEN Decode(store, idx, index)
    ELSE Example(FALSE, "AttributeError", <<>>, <<>>)

(***************************************************************************)
(* EditDistanceMetric and evaluate, lines 138-164                          *)
(***************************************************************************)

Min3(a, b, c) == Min(a, Min(b, c))

\* torchaudio.functional.edit_distance, the inner loop over seq2: dnew[j] from
\* dold[j - 1], dnew[j - 1] and dold[j]. Python's dnew[0..j-1] is dnew here.
RECURSIVE RowSweep(_, _, _, _, _)
RowSweep(a, seq2, dold, dnew, j) ==
    IF j > Len(seq2) THEN dnew
    ELSE Bind(IF a = seq2[j] THEN dold[j]
              ELSE Min3(dold[j] + 1, dnew[j] + 1, dold[j + 1] + 1),
              LAMBDA d : RowSweep(a, seq2, dold, Append(dnew, d), j + 1))

\* The outer loop over seq1: dnew[0] = i, the sweep, then the rows swap.
RECURSIVE Rows(_, _, _, _)
Rows(seq1, seq2, dold, i) ==
    IF i > Len(seq1) THEN dold
    ELSE Bind(RowSweep(seq1[i], seq2, dold, <<i>>, 1),
              LAMBDA dnew : Rows(seq1, seq2, dnew, i + 1))

\* torchaudio.functional.edit_distance(seq1, seq2): the single-row sweep that
\* starts from dold = range(len(seq2) + 1) and returns dold[-1].
EditDistance(seq1, seq2) ==
    Bind(Rows(seq1, seq2, [j \in 1..(Len(seq2) + 1) |-> j - 1], 1),
         LAMBDA dold : dold[Len(dold)])

\* A filter that takes the ignore index 0 for none: `if self._ignore_index`.
RECURSIVE FilteredIfTruthy(_, _)
FilteredIfTruthy(ignore, seq) ==
    IF ignore = <<>> \/ ignore = <<0>> \/ seq = <<>> THEN seq
    ELSE IF Head(seq) # ignore[1]
         THEN <<Head(seq)>> \o FilteredIfTruthy(ignore, Tail(seq))
         ELSE FilteredIfTruthy(ignore, Tail(seq))

\* Lines 146-148: [y for y in seq if y != self._ignore_index], when one is set.
RECURSIVE Filtered(_, _)
Filtered(ignore, seq) ==
    IF ignore = <<>> \/ seq = <<>> THEN seq
    ELSE IF Head(seq) # ignore[1]
         THEN <<Head(seq)>> \o Filtered(ignore, Tail(seq))
         ELSE Filtered(ignore, Tail(seq))

\* A divisor taken from the prediction instead: len(y_pred) or 1.
DenominatorOfPrediction(y_pred, y_true) == IF Len(y_pred) = 0 THEN 1 ELSE Len(y_pred)

\* Line 149: len(y_true) or 1, after the filtering.
Denominator(y_pred, y_true) == IF Len(y_true) = 0 THEN 1 ELSE Len(y_true)

\* Line 149: edit_distance(y_pred, y_true) / (len(y_true) or 1), kept as the
\* pair <<dividend, divisor>>.
Score(ignore, y_pred, y_true) ==
    Bind(Filtered(ignore, y_true), LAMBDA t :
      Bind(Filtered(ignore, y_pred), LAMBDA p :
        <<EditDistance(p, t), Denominator(p, t)>>))

\* Lines 144-149: the scores of the pairs that zip(y_preds, y_trues) yields.
RECURSIVE EditDistances(_, _, _)
EditDistances(ignore, preds, trues) ==
    IF preds = <<>> \/ trues = <<>> THEN <<>>
    ELSE <<Score(ignore, Head(preds), Head(trues))>>
         \o EditDistances(ignore, Tail(preds), Tail(trues))

\* update(y_preds, y_trues), lines 143-150: MeanMetric.update adds every score
\* of the list to what it has accumulated.
Update(acc, ignore, preds, trues) == acc \o EditDistances(ignore, preds, trues)

\* The sum of scores as one fraction.
RECURSIVE SumOf(_)
SumOf(scores) ==
    IF scores = <<>> THEN <<0, 1>>
    ELSE Bind(SumOf(Tail(scores)), LAMBDA rest :
            <<Head(scores)[1] * rest[2] + rest[1] * Head(scores)[2],
              Head(scores)[2] * rest[2]>>)

\* MeanMetric.compute(): the sum of the scores over their number, as a
\* fraction; nan when nothing was accumulated.
Compute(acc) ==
    IF acc = <<>> THEN <<0, 0>>
    ELSE Bind(SumOf(acc), LAMBDA t : <<t[1], t[2] * Len(acc)>>)

MARKS ==
    << "<pad>", "barline", "clef-C1", "clef-C2", "clef-C3", "clef-C4", "clef-C5", "clef-F3",
       "clef-F4", "clef-G1", "clef-G2", "keySignature-AM", "keySignature-AbM",
       "keySignature-BM", "keySignature-BbM", "keySignature-C#M", "keySignature-CM",
       "keySignature-DM", "keySignature-DbM", "keySignature-EM", "keySignature-EbM",
       "keySignature-F#M", "keySignature-FM", "keySignature-GM", "keySignature-GbM",
       "note-A#2_eighth", "note-A#2_half", "note-A#2_quarter", "note-A#2_quarter.",
       "note-A#2_sixteenth", "note-A#2_sixteenth.", "note-A#3_eighth", "note-A#3_eighth.",
       "note-A#3_half", "note-A#3_quarter", "note-A#3_quarter.", "note-A#3_sixteenth",
       "note-A#3_sixteenth.", "note-A#3_thirty_second", "note-A#3_whole", "note-A#4_eighth",
       "note-A#4_eighth.", "note-A#4_half", "note-A#4_half.", "note-A#4_quarter",
       "note-A#4_quarter.", "note-A#4_sixteenth", "note-A#4_sixteenth.",
       "note-A#4_thirty_second", "note-A#4_whole", "note-A#4_whole.", "note-A#5_eighth",
       "note-A#5_eighth.", "note-A#5_half", "note-A#5_half.", "note-A#5_quarter",
       "note-A#5_quarter.", "note-A#5_sixteenth", "note-A#5_thirty_second",
       "note-A1_sixteenth", "note-A2_eighth", "note-A2_eighth.", "note-A2_half",
       "note-A2_half.", "note-A2_quarter", "note-A2_quarter.", "note-A2_sixteenth",
       "note-A2_sixteenth.", "note-A2_thirty_second", "note-A2_whole", "note-A2_whole.",
       "note-A3_eighth", "note-A3_eighth.", "note-A3_half", "note-A3_half.", "note-A3_quarter",
       "note-A3_quarter.", "note-A3_sixteenth", "note-A3_sixteenth.", "note-A3_thirty_second",
       "note-A3_whole", "note-A3_whole.", "note-A4_eighth", "note-A4_eighth.",
       "note-A4_eighth..", "note-A4_half", "note-A4_half.", "note-A4_quarter",
       "note-A4_quarter.", "note-A4_quarter..", "note-A4_sixteenth", "note-A4_sixteenth.",
       "note-A4_thirty_second", "note-A4_whole", "note-A4_whole.", "note-A5_eighth",
       "note-A5_eighth.", "note-A5_eighth..", "note-A5_half", "note-A5_half.",
       "note-A5_quarter", "note-A5_quarter.", "note-A5_quarter..", "note-A5_sixteenth",
       "note-A5_sixteenth.", "note-A5_thirty_second", "note-A5_thirty_second.",
       "note-A5_whole", "note-A5_whole.", "note-Ab2_eighth", "note-Ab2_eighth.",
       "note-Ab2_half", "note-Ab2_quarter", "note-Ab2_quarter.", "note-Ab2_sixteenth",
       "note-Ab2_thirty_second", "note-Ab2_whole", "note-Ab3_eighth", "note-Ab3_eighth.",
       "note-Ab3_half", "note-Ab3_half.", "note-Ab3_quarter", "note-Ab3_quarter.",
       "note-Ab3_quarter..", "note-Ab3_sixteenth", "note-Ab3_sixteenth.",
       "note-Ab3_thirty_second", "note-Ab3_whole", "note-Ab4_eighth", "note-Ab4_eighth.",
       "note-Ab4_half", "note-Ab4_half.", "note-Ab4_quarter", "note-Ab4_quarter.",
       "note-Ab4_quarter..", "note-Ab4_sixteenth", "note-Ab4_sixteenth.",
       "note-Ab4_thirty_second", "note-Ab4_whole", "note-Ab4_whole.", "note-Ab5_eighth",
       "note-Ab5_eighth.", "note-Ab5_eighth..", "note-Ab5_half", "note-Ab5_half.",
       "note-Ab5_quarter", "note-Ab5_quarter.", "note-Ab5_sixteenth", "note-Ab5_sixteenth.",
       "note-Ab5_thirty_second", "note-Ab5_whole", "note-B#2_eighth", "note-B#2_half",
       "note-B#2_quarter", "note-B#2_sixteenth", "note-B#3_eighth", "note-B#3_eighth.",
       "note-B#3_half", "note-B#3_half.", "note-B#3_quarter", "note-B#3_quarter.",
       "note-B#3_sixteenth", "note-B#3_thirty_second", "note-B#3_whole", "note-B#4_eighth",
       "note-B#4_eighth.", "note-B#4_half", "note-B#4_half.", "note-B#4_quarter",
       "note-B#4_quarter.", "note-B#4_sixteenth", "note-B#4_sixteenth.",
       "note-B#4_thirty_second", "note-B#4_whole", "note-B#5_eighth", "note-B#5_quarter",
       "note-B#5_sixteenth", "note-B2_eighth", "note-B2_eighth.", "note-B2_half",
       "note-B2_half.", "note-B2_quarter", "note-B2_quarter.", "note-B2_sixteenth",
       "note-B2_sixteenth.", "note-B2_thirty_second", "note-B2_whole", "note-B2_whole.",
       "note-B3_eighth", "note-B3_eighth.", "note-B3_half", "note-B3_half.", "note-B3_quarter",
       "note-B3_quarter.", "note-B3_quarter..", "note-B3_sixteenth", "note-B3_sixteenth.",
       "note-B3_thirty_second", "note-B3_whole", "note-B3_whole.", "note-B4_eighth",
       "note-B4_eighth.", "note-B4_eighth..", "note-B4_half", "note-B4_half.",
       "note-B4_quarter", "note-B4_quarter.", "note-B4_quarter..", "note-B4_sixteenth",
       "note-B4_sixteenth.", "note-B4_thirty_second", "note-B4_whole", "note-B4_whole.",
       "note-B5_eighth", "note-B5_eighth.", "note-B5_eighth..", "note-B5_half",
       "note-B5_half.", "note-B5_quarter", "note-B5_quarter.", "note-B5_quarter..",
       "note-B5_sixteenth", "note-B5_sixteenth.", "note-B5_thirty_second", "note-B5_whole",
       "note-Bb1_half", "note-Bb2_eighth", "note-Bb2_eighth.", "note-Bb2_half",
       "note-Bb2_half.", "note-Bb2_quarter", "note-Bb2_quarter.", "note-Bb2_sixteenth",
       "note-Bb2_sixteenth.", "note-Bb2_thirty_second", "note-Bb2_whole", "note-Bb2_whole.",
       "note-Bb3_eighth", "note-Bb3_eighth.", "note-Bb3_half", "note-Bb3_half.",
       "note-Bb3_quarter", "note-Bb3_quarter.", "note-Bb3_quarter..", "note-Bb3_sixteenth",
       "note-Bb3_sixteenth.", "note-Bb3_thirty_second", "note-Bb3_whole", "note-Bb3_whole.",
       "note-Bb4_eighth", "note-Bb4_eighth.", "note-Bb4_eighth..", "note-Bb4_half",
       "note-Bb4_half.", "note-Bb4_quarter", "note-Bb4_quarter.", "note-Bb4_quarter..",
       "note-Bb4_sixteenth", "note-Bb4_sixteenth.", "note-Bb4_thirty_second", "note-Bb4_whole",
       "note-Bb4_whole.", "note-Bb5_eighth", "note-Bb5_eighth.", "note-Bb5_half",
       "note-Bb5_half.", "note-Bb5_quarter", "note-Bb5_quarter.", "note-Bb5_quarter..",
       "note-Bb5_sixteenth", "note-Bb5_sixteenth.", "note-Bb5_thirty_second",
       "note-Bb5_thirty_second.", "note-Bb5_whole", "note-C#2_eighth", "note-C#2_quarter",
       "note-C#2_quarter.", "note-C#2_sixteenth", "note-C#2_whole", "note-C#3_eighth",
       "note-C#3_eighth.", "note-C#3_half", "note-C#3_half.", "note-C#3_quarter",
       "note-C#3_quarter.", "note-C#3_sixteenth", "note-C#3_sixteenth.",
       "note-C#3_thirty_second", "note-C#3_whole", "note-C#4_eighth", "note-C#4_eighth.",
       "note-C#4_eighth..", "note-C#4_half", "note-C#4_half.", "note-C#4_quarter",
       "note-C#4_quarter.", "note-C#4_sixteenth", "note-C#4_sixteenth.",
       "note-C#4_thirty_second", "note-C#4_whole", "note-C#4_whole.", "note-C#5_eighth",
       "note-C#5_eighth.", "note-C#5_eighth..", "note-C#5_half", "note-C#5_half.",
       "note-C#5_quarter", "note-C#5_quarter.", "note-C#5_quarter..", "note-C#5_sixteenth",
       "note-C#5_sixteenth.", "note-C#5_thirty_second", "note-C#5_whole", "note-C#5_whole.",
       "note-C#6_eighth", "note-C#6_eighth.", "note-C#6_half", "note-C#6_half.",
       "note-C#6_quarter", "note-C#6_quarter.", "note-C#6_quarter..", "note-C#6_sixteenth",
       "note-C#6_sixteenth.", "note-C#6_thirty_second", "note-C2_eighth", "note-C2_eighth.",
       "note-C2_half", "note-C2_quarter", "note-C2_quarter.", "note-C2_sixteenth",
       "note-C2_thirty_second", "note-C2_whole", "note-C3_eighth", "note-C3_eighth.",
       "note-C3_half", "note-C3_half.", "note-C3_quarter", "note-C3_quarter.",
       "note-C3_sixteenth", "note-C3_sixteenth.", "note-C3_thirty_second", "note-C3_whole",
       "note-C3_whole.", "note-C4_eighth", "note-C4_eighth.", "note-C4_eighth..",
       "note-C4_half", "note-C4_half.", "note-C4_quarter", "note-C4_quarter.",
       "note-C4_quarter..", "note-C4_sixteenth", "note-C4_sixteenth.", "note-C4_thirty_second",
       "note-C4_whole", "note-C4_whole.", "note-C5_eighth", "note-C5_eighth.",
       "note-C5_eighth..", "note-C5_half", "note-C5_half.", "note-C5_quarter",
       "note-C5_quarter.", "note-C5_quarter..", "note-C5_sixteenth", "note-C5_sixteenth.",
       "note-C5_thirty_second", "note-C5_thirty_second.", "note-C5_whole", "note-C5_whole.",
       "note-C6_eighth", "note-C6_eighth.", "note-C6_eighth..", "note-C6_half",
       "note-C6_half.", "note-C6_half..", "note-C6_quarter", "note-C6_quarter.",
       "note-C6_quarter..", "note-C6_sixteenth", "note-C6_sixteenth.", "note-C6_thirty_second",
       "note-C6_whole", "note-Cb3_eighth", "note-Cb3_quarter", "note-Cb3_thirty_second",
       "note-Cb4_eighth", "note-Cb4_quarter.", "note-Cb4_sixteenth", "note-Cb5_eighth",
       "note-Cb5_eighth.", "note-Cb5_half", "note-Cb5_half.", "note-Cb5_quarter",
       "note-Cb5_quarter.", "note-Cb5_sixteenth", "note-Cb5_thirty_second", "note-Cb5_whole",
       "note-Cb6_eighth", "note-Cb6_half", "note-Cb6_quarter", "note-Cb6_sixteenth",
       "note-D#2_quarter", "note-D#2_sixteenth", "note-D#3_eighth", "note-D#3_eighth.",
       "note-D#3_half", "note-D#3_quarter", "note-D#3_sixteenth", "note-D#3_sixteenth.",
       "note-D#3_thirty_second", "note-D#3_whole", "note-D#4_eighth", "note-D#4_eighth.",
       "note-D#4_half", "note-D#4_half.", "note-D#4_quarter", "note-D#4_quarter.",
       "note-D#4_sixteenth", "note-D#4_sixteenth.", "note-D#4_thirty_second", "note-D#4_whole",
       "note-D#5_eighth", "note-D#5_eighth.", "note-D#5_half", "note-D#5_half.",
       "note-D#5_quarter", "note-D#5_quarter.", "note-D#5_quarter..", "note-D#5_sixteenth",
       "note-D#5_sixteenth.", "note-D#5_thirty_second", "note-D#5_whole", "note-D#6_eighth",
       "note-D#6_eighth..", "note-D#6_half", "note-D#6_quarter", "note-D#6_sixteenth",
       "note-D#6_thirty_second", "note-D2_eighth", "note-D2_eighth.", "note-D2_half",
       "note-D2_half.", "note-D2_quarter", "note-D2_quarter.", "note-D2_sixteenth",
       "note-D2_thirty_second", "note-D2_whole", "note-D3_eighth", "note-D3_eighth.",
       "note-D3_half", "note-D3_half.", "note-D3_quarter", "note-D3_quarter.",
       "note-D3_sixteenth", "note-D3_sixteenth.", "note-D3_thirty_second", "note-D3_whole",
       "note-D3_whole.", "note-D4_eighth", "note-D4_eighth.", "note-D4_half", "note-D4_half.",
       "note-D4_quarter", "note-D4_quarter.", "note-D4_quarter..", "note-D4_sixteenth",
       "note-D4_sixteenth.", "note-D4_thirty_second", "note-D4_whole", "note-D4_whole.",
       "note-D5_eighth", "note-D5_eighth.", "note-D5_eighth..", "note-D5_half",
       "note-D5_half.", "note-D5_quarter", "note-D5_quarter.", "note-D5_quarter..",
       "note-D5_sixteenth", "note-D5_sixteenth.", "note-D5_thirty_second",
       "note-D5_thirty_second.", "note-D5_whole", "note-D5_whole.", "note-D6_eighth",
       "note-D6_eighth.", "note-D6_eighth..", "note-D6_half", "note-D6_half.",
       "note-D6_half..", "note-D6_quarter", "note-D6_quarter.", "note-D6_quarter..",
       "note-D6_sixteenth", "note-D6_sixteenth.", "note-D6_thirty_second", "note-D6_whole",
       "note-D6_whole.", "note-Db3_eighth", "note-Db3_half", "note-Db3_half.",
       "note-Db3_quarter", "note-Db3_quarter.", "note-Db3_thirty_second", "note-Db4_eighth",
       "note-Db4_eighth.", "note-Db4_half", "note-Db4_half.", "note-Db4_quarter",
       "note-Db4_quarter.", "note-Db4_sixteenth", "note-Db4_sixteenth.",
       "note-Db4_thirty_second", "note-Db4_whole", "note-Db5_eighth", "note-Db5_eighth.",
       "note-Db5_half", "note-Db5_half.", "note-Db5_quarter", "note-Db5_quarter.",
       "note-Db5_quarter..", "note-Db5_sixteenth", "note-Db5_sixteenth.",
       "note-Db5_thirty_second", "note-Db5_whole", "note-Db5_whole.", "note-Db6_eighth",
       "note-Db6_eighth.", "note-Db6_half", "note-Db6_quarter", "note-Db6_quarter.",
       "note-Db6_sixteenth", "note-Db6_thirty_second", "note-E#3_eighth", "note-E#3_eighth.",
       "note-E#3_half", "note-E#3_sixteenth", "note-E#4_eighth", "note-E#4_eighth.",
       "note-E#4_half", "note-E#4_quarter", "note-E#4_quarter.", "note-E#4_sixteenth",
       "note-E#4_whole", "note-E#4_whole.", "note-E#5_eighth", "note-E#5_eighth.",
       "note-E#5_half", "note-E#5_half.", "note-E#5_quarter", "note-E#5_quarter.",
       "note-E#5_sixteenth", "note-E#5_sixteenth.", "note-E#5_thirty_second",
       "note-E#6_sixteenth", "note-E2_eighth", "note-E2_eighth.", "note-E2_half",
       "note-E2_half.", "note-E2_quarter", "note-E2_sixteenth", "note-E2_thirty_second",
       "note-E2_whole", "note-E3_eighth", "note-E3_eighth.", "note-E3_half", "note-E3_half.",
       "note-E3_quarter", "note-E3_quarter.", "note-E3_sixteenth", "note-E3_sixteenth.",
       "note-E3_thirty_second", "note-E3_whole", "note-E3_whole.", "note-E4_eighth",
       "note-E4_eighth.", "note-E4_eighth..", "note-E4_half", "note-E4_half.",
       "note-E4_quarter", "note-E4_quarter.", "note-E4_quarter..", "note-E4_sixteenth",
       "note-E4_sixteenth.", "note-E4_thirty_second", "note-E4_whole", "note-E4_whole.",
       "note-E5_eighth", "note-E5_eighth.", "note-E5_eighth..", "note-E5_half",
       "note-E5_half.", "note-E5_half..", "note-E5_quarter", "note-E5_quarter.",
       "note-E5_quarter..", "note-E5_sixteenth", "note-E5_sixteenth.", "note-E5_thirty_second",
       "note-E5_whole", "note-E5_whole.", "note-E6_eighth", "note-E6_eighth.",
       "note-E6_eighth..", "note-E6_half", "note-E6_half.", "note-E6_quarter",
       "note-E6_quarter.", "note-E6_sixteenth", "note-E6_sixteenth.", "note-E6_thirty_second",
       "note-Eb2_eighth", "note-Eb2_half", "note-Eb2_quarter", "note-Eb2_quarter.",
       "note-Eb2_sixteenth", "note-Eb2_sixteenth.", "note-Eb2_thirty_second", "note-Eb2_whole",
       "note-Eb3_eighth", "note-Eb3_eighth.", "note-Eb3_half", "note-Eb3_half.",
       "note-Eb3_quarter", "note-Eb3_quarter.", "note-Eb3_sixteenth", "note-Eb3_sixteenth.",
       "note-Eb3_thirty_second", "note-Eb3_whole", "note-Eb3_whole.", "note-Eb4_eighth",
       "note-Eb4_eighth.", "note-Eb4_half", "note-Eb4_half.", "note-Eb4_quarter",
       "note-Eb4_quarter.", "note-Eb4_quarter..", "note-Eb4_sixteenth", "note-Eb4_sixteenth.",
       "note-Eb4_thirty_second", "note-Eb4_whole", "note-Eb4_whole.", "note-Eb5_eighth",
       "note-Eb5_eighth.", "note-Eb5_eighth..", "note-Eb5_half", "note-Eb5_half.",
       "note-Eb5_quarter", "note-Eb5_quarter.", "note-Eb5_quarter..", "note-Eb5_sixteenth",
       "note-Eb5_sixteenth.", "note-Eb5_thirty_second", "note-Eb5_whole", "note-Eb5_whole.",
       "note-Eb6_eighth", "note-Eb6_eighth.", "note-Eb6_eighth..", "note-Eb6_half",
       "note-Eb6_half.", "note-Eb6_quarter", "note-Eb6_quarter.", "note-Eb6_sixteenth",
       "note-Eb6_sixteenth.", "note-Eb6_thirty_second", "note-F#2_eighth", "note-F#2_eighth.",
       "note-F#2_half", "note-F#2_half.", "note-F#2_quarter", "note-F#2_quarter.",
       "note-F#2_sixteenth", "note-F#2_whole", "note-F#3_eighth", "note-F#3_eighth.",
       "note-F#3_half", "note-F#3_half.", "note-F#3_quarter", "note-F#3_quarter.",
       "note-F#3_sixteenth", "note-F#3_sixteenth.", "note-F#3_thirty_second", "note-F#3_whole",
       "note-F#3_whole.", "note-F#4_eighth", "note-F#4_eighth.", "note-F#4_half",
       "note-F#4_half.", "note-F#4_quarter", "note-F#4_quarter.", "note-F#4_quarter..",
       "note-F#4_sixteenth", "note-F#4_sixteenth.", "note-F#4_thirty_second", "note-F#4_whole",
       "note-F#4_whole.", "note-F#5_eighth", "note-F#5_eighth.", "note-F#5_half",
       "note-F#5_half.", "note-F#5_quarter", "note-F#5_quarter.", "note-F#5_quarter..",
       "note-F#5_sixteenth", "note-F#5_sixteenth.", "note-F#5_thirty_second", "note-F#5_whole",
       "note-F#5_whole.", "note-F#6_eighth", "note-F#6_eighth.", "note-F#6_half",
       "note-F#6_quarter", "note-F#6_quarter.", "note-F#6_sixteenth", "note-F#6_thirty_second",
       "note-F#6_whole", "note-F2_eighth", "note-F2_eighth.", "note-F2_half", "note-F2_half.",
       "note-F2_quarter", "note-F2_quarter.", "note-F2_quarter..", "note-F2_sixteenth",
       "note-F2_sixteenth.", "note-F2_thirty_second", "note-F2_whole", "note-F2_whole.",
       "note-F3_eighth", "note-F3_eighth.", "note-F3_half", "note-F3_half.", "note-F3_quarter",
       "note-F3_quarter.", "note-F3_quarter..", "note-F3_sixteenth", "note-F3_sixteenth.",
       "note-F3_thirty_second", "note-F3_whole", "note-F3_whole.", "note-F4_eighth",
       "note-F4_eighth.", "note-F4_eighth..", "note-F4_half", "note-F4_half.",
       "note-F4_quarter", "note-F4_quarter.", "note-F4_quarter..", "note-F4_sixteenth",
       "note-F4_sixteenth.", "note-F4_thirty_second", "note-F4_whole", "note-F4_whole.",
       "note-F5_eighth", "note-F5_eighth.", "note-F5_half", "note-F5_half.", "note-F5_quarter",
       "note-F5_quarter.", "note-F5_quarter..", "note-F5_sixteenth", "note-F5_sixteenth.",
       "note-F5_thirty_second", "note-F5_whole", "note-F5_whole.", "note-F6_eighth",
       "note-F6_eighth.", "note-F6_half", "note-F6_half.", "note-F6_quarter",
       "note-F6_quarter.", "note-F6_sixteenth", "note-F6_sixteenth.", "note-F6_thirty_second",
       "note-Fb3_half", "note-Fb3_sixteenth", "note-Fb3_thirty_second", "note-Fb4_eighth",
       "note-Fb4_quarter.", "note-Fb4_sixteenth", "note-Fb4_thirty_second", "note-Fb5_eighth",
       "note-Fb5_half", "note-G#2_eighth", "note-G#2_eighth.", "note-G#2_half",
       "note-G#2_half.", "note-G#2_quarter", "note-G#2_quarter.", "note-G#2_sixteenth",
       "note-G#3_eighth", "note-G#3_eighth.", "note-G#3_half", "note-G#3_half.",
       "note-G#3_quarter", "note-G#3_quarter.", "note-G#3_sixteenth", "note-G#3_sixteenth.",
       "note-G#3_thirty_second", "note-G#3_whole", "note-G#4_eighth", "note-G#4_eighth.",
       "note-G#4_eighth..", "note-G#4_half", "note-G#4_half.", "note-G#4_quarter",
       "note-G#4_quarter.", "note-G#4_sixteenth", "note-G#4_sixteenth.",
       "note-G#4_thirty_second", "note-G#4_whole", "note-G#4_whole.", "note-G#5_eighth",
       "note-G#5_eighth.", "note-G#5_half", "note-G#5_half.", "note-G#5_quarter",
       "note-G#5_quarter.", "note-G#5_quarter..", "note-G#5_sixteenth", "note-G#5_sixteenth.",
       "note-G#5_thirty_second", "note-G#5_whole", "note-G#5_whole.", "note-G2_eighth",
       "note-G2_eighth.", "note-G2_half", "note-G2_half.", "note-G2_quarter",
       "note-G2_quarter.", "note-G2_sixteenth", "note-G2_sixteenth.", "note-G2_thirty_second",
       "note-G2_whole", "note-G2_whole.", "note-G3_eighth", "note-G3_eighth.", "note-G3_half",
       "note-G3_half.", "note-G3_quarter", "note-G3_quarter.", "note-G3_quarter..",
       "note-G3_sixteenth", "note-G3_sixteenth.", "note-G3_thirty_second", "note-G3_whole",
       "note-G3_whole.", "note-G4_eighth", "note-G4_eighth.", "note-G4_eighth..",
       "note-G4_half", "note-G4_half.", "note-G4_quarter", "note-G4_quarter.",
       "note-G4_quarter..", "note-G4_sixteenth", "note-G4_sixteenth.", "note-G4_thirty_second",
       "note-G4_whole", "note-G4_whole.", "note-G5_eighth", "note-G5_eighth.",
       "note-G5_eighth..", "note-G5_half", "note-G5_half.", "note-G5_half..",
       "note-G5_quarter", "note-G5_quarter.", "note-G5_quarter..", "note-G5_sixteenth",
       "note-G5_sixteenth.", "note-G5_thirty_second", "note-G5_whole", "note-G5_whole.",
       "note-Gb3_eighth", "note-Gb3_eighth.", "note-Gb3_half", "note-Gb3_quarter",
       "note-Gb3_quarter..", "note-Gb3_thirty_second", "note-Gb4_eighth", "note-Gb4_eighth.",
       "note-Gb4_half", "note-Gb4_half.", "note-Gb4_quarter", "note-Gb4_quarter.",
       "note-Gb4_sixteenth", "note-Gb4_thirty_second", "note-Gb4_whole", "note-Gb5_eighth",
       "note-Gb5_eighth.", "note-Gb5_half", "note-Gb5_half.", "note-Gb5_quarter",
       "note-Gb5_quarter.", "note-Gb5_sixteenth", "note-Gb5_whole", "rest-eighth",
       "rest-eighth.", "rest-half", "rest-half.", "rest-quadruple_whole", "rest-quarter",
       "rest-quarter.", "rest-quarter..", "rest-sixteenth", "rest-sixteenth.", "rest-whole",
       "tie", "timeSignature-1/2", "timeSignature-1/4", "timeSignature-2/1",
       "timeSignature-2/2", "timeSignature-2/3", "timeSignature-2/4", "timeSignature-2/8",
       "timeSignature-3/1", "timeSignature-3/2", "timeSignature-3/4", "timeSignature-3/6",
       "timeSignature-3/8", "timeSignature-4/2", "timeSignature-4/4", "timeSignature-4/8",
       "timeSignature-5/4", "timeSignature-5/8", "timeSignature-6/2", "timeSignature-6/4",
       "timeSignature-6/8", "timeSignature-7/4", "timeSignature-8/2", "timeSignature-8/4",
       "timeSignature-8/8", "timeSignature-9/4", "timeSignature-9/8", "timeSignature-C",
       "timeSignature-C/" >>

\* HOMRDataset.MARKS[mark] for a mark >= 0.
MarkNames(marks) ==
    IF \E i \in 1..Len(marks) : marks[i] >= Len(MARKS)
    THEN [ok |-> FALSE, names |-> <<>>]
    ELSE [ok |-> TRUE, names |-> [i \in 1..Len(marks) |-> MARKS[marks[i] + 1]]]

\* Line 155: `for example in gold_dataset` calls dataset[0], dataset[1], ...
\* until one raises IndexError; any other exception leaves evaluate.
RECURSIVE Gold(_, _, _, _, _, _)
Gold(cache, demand, store, idx, i, acc) ==
    Bind(GetItem(cache, demand, store, idx, i), LAMBDA e :
      IF ~e.ok
      THEN IF e.err = "IndexError" THEN [ok |-> TRUE, err |-> "", gold |-> acc]
           ELSE [ok |-> FALSE, err |-> e.err, gold |-> <<>>]
      ELSE Bind(MarkNames(e.marks), LAMBDA m :
             IF ~m.ok THEN [ok |-> FALSE, err |-> "IndexError", gold |-> <<>>]
             ELSE Gold(cache, demand, store, idx, i + 1, Append(acc, m.names))))

\* Lines 161-163: one metric call per (gold sentence, prediction) pair.
RECURSIVE ScoreAll(_, _, _)
ScoreAll(acc, gold, preds) ==
    IF gold = <<>> \/ preds = <<>> THEN acc
    ELSE Bind(Update(acc, <<>>, <<Head(preds)>>, <<Head(gold)>>), LAMBDA a :
            ScoreAll(a, Tail(gold), Tail(preds)))

Outcome(goldOk, e, gold, sizes, scores, returned, value) ==
    [called |-> TRUE, gold_ok |-> goldOk, err |-> e, gold |-> gold, sizes |-> sizes,
     scores |-> scores, returned |-> returned, value |-> value]

\* An evaluate that goes straight to the zip.
SizesNeverDiffer(preds, gold) == FALSE

\* Line 157: len(predictions) != len(gold)
SizesDiffer(preds, gold) == Len(preds) # Len(gold)

\* evaluate(gold_dataset, predictions), lines 154-164.
Evaluate(cache, demand, store, idx, preds) ==
    Bind(Gold(cache, demand, store, idx, 0, <<>>), LAMBDA g :
      IF ~g.ok THEN Outcome(FALSE, g.err, <<>>, <<>>, <<>>, FALSE, <<0, 0>>)
      ELSE IF SizesDiffer(preds, g.gold)
           THEN Outcome(TRUE, "RuntimeError", g.gold, <<Len(preds), Len(g.gold)>>,
                        <<>>, FALSE, <<0, 0>>)
      ELSE Bind(ScoreAll(<<>>, g.gold, preds), LAMBDA scores :
             Bind(Compute(scores), LAMBDA mean :
               Outcome(TRUE, "", g.gold, <<>>, scores, TRUE,
                       <<100 * mean[1], mean[2]>>))))

(***************************************************************************)
(* The file format the loader reads: the writer's side of lines 102-131    *)
(* (tf.train.Example: Features.feature is field 1, a map entry's key is    *)
(* field 1 and its value field 2, Feature's bytes_list, float_list and     *)
(* int64_list are fields 1, 2, 3, each list's packed values field 1)       *)
(***************************************************************************)

\* A number as a varint.
V(k) == Bind(FromNat(k), LAMBDA groups : EncodeVarint(groups))

\* A length-delimited field: the tag byte, the length, the bytes.
Tagged(tag, body) == Bind(body, LAMBDA b : <<tag>> \o V(Len(b)) \o b)

RECURSIVE Packed(_)
Packed(vs) == IF vs = <<>> THEN <<>> ELSE V(Head(vs)) \o Packed(Tail(vs))

RECURSIVE Concat(_)
Concat(seqs) == IF seqs = <<>> THEN <<>> ELSE Head(seqs) \o Concat(Tail(seqs))

\* A feature as it is written: its key, its kind, its elements, the bytes of
\* its value.
BytesEntry(key, bytes) ==
    [key |-> key, kind |-> "bytes", elems |-> bytes,
     value |-> Tagged(10, Tagged(10, bytes))]

\* An int64_list; one without values is the empty message, 1A 00.
IntsEntry(key, vs) ==
    [key |-> key, kind |-> "ints", elems |-> vs,
     value |-> IF vs = <<>> THEN <<26, 0>> ELSE Tagged(26, Tagged(10, Packed(vs)))]

\* A float_list, given by the bytes of its floats.
FloatsEntry(key, bytes) ==
    [key |-> key, kind |-> "floats", elems |-> bytes,
     value |-> Tagged(18, Tagged(10, bytes))]

\* A feature whose value bytes are given as they are.
RawEntry(key, value) ==
    [key |-> key, kind |-> "raw", elems |-> <<>>, value |-> value]

FieldBytes(e) == Tagged(10, Tagged(10, e.key) \o Tagged(18, e.value))

\* The payload of a record: the envelope around its fields.
Payload(rec) == Tagged(10, Concat([i \in 1..Len(rec) |-> FieldBytes(rec[i])]))

\* The four bytes before and after a payload; the loader never looks at them.
Crc == <<0, 0, 0, 0>>

Frame(payload) == Bind(payload, LAMBDA p : ToLE(Len(p), 8) \o Crc \o p \o Crc)

(***************************************************************************)
(* The records of the inputs                                               *)
(***************************************************************************)

\* "f", a key of floats.
KeyF == <<102>>

\* 1.0 as a little-endian float32.
OneFloat == <<0, 0, 128, 63>>

Img2 == BytesEntry(KeyImage, <<137, 80>>)
Img1 == BytesEntry(KeyImage, <<66>>)
Img0 == BytesEntry(KeyImage, <<>>)
Marks314 == IntsEntry(KeyMarks, <<3, 1, 4>>)
Marks0 == IntsEntry(KeyMarks, <<>>)
MarksWide == IntsEntry(KeyMarks, <<200, 0>>)
\* An unsupported kind byte, 0xFF, at the value dispatch point.
MarksBadTag == RawEntry(KeyMarks, <<255, 0>>)

Records ==
    { <<Img2, Marks314>>,                        \* an image and three marks
      <<Img1, Marks0>>,                          \* no marks
      <<Img2, MarksWide>>,                       \* a two-byte varint, a zero
      <<Img0, Marks314>>,                        \* an image of no bytes
      <<Img1>>,                                  \* no "marks" key
      <<Img1, Marks314, Marks0>>,                \* "marks" twice
      <<>>,                                      \* no field
      <<Img1, MarksBadTag>>,                     \* 0xFF after a decoded field
      <<MarksBadTag>>,                           \* 0xFF in the first field
      <<Img1, IntsEntry(KeyImage, <<5>>)>>,      \* "image" as varints
      <<IntsEntry(KeyImage, <<300>>)>>,          \* "image" as a varint above 255
      <<Img1, BytesEntry(KeyMarks, <<7>>)>>,     \* "marks" as bytes
      <<Img1, Marks0, FloatsEntry(KeyF, OneFloat)>>,  \* a key of floats
      <<Img1, RawEntry(KeyMarks, <<26, 4, 10, 1, 200, 1>>)>>,
                                                 \* a varint that leaves its span
      <<RawEntry(KeyImage, <<10, 5, 10, 3, 137>>)>>
                                                 \* fewer bytes than declared
    }

\* Where a file may end inside a frame of payload length l: inside the length,
\* after it, inside and after the first ignored field, inside and after the
\* payload, inside the last ignored field.
Cuts(l) == {3, 8, 10, 12, 12 + l - 1, 12 + l, 12 + l + 2}

\* The most records a caller asks for.
MaxItems == 2

(***************************************************************************)
(* Spec: _load_data, then Dataset.__init__ and __getitem__                 *)
(***************************************************************************)

NoExc == [type |-> "", tag |-> 0]

NoGot == [index |-> -1, example |-> Example(FALSE, "", <<>>, <<>>)]

NoEval ==
    [called |-> FALSE, gold_ok |-> FALSE, err |-> "", gold |-> <<>>, sizes |-> <<>>,
     scores |-> <<>>, returned |-> FALSE, value |-> <<0, 0>>]

MetricIdle ==
    /\ ignore_index = <<>>
    /\ y_preds = <<>>
    /\ y_trues = <<>>
    /\ recorded = <<>>
    /\ mpc = "off"

Empty == <<>>

VarintIdle ==
    /\ vin = ZeroGroups
    /\ vdata = <<>>
    /\ vstart = 0
    /\ vres = [ok |-> FALSE, err |-> "", value |-> ZeroGroups, offset |-> 0]
    /\ vpc = "off"

LoadIdle ==
    /\ items = 0
    /\ processed = 0
    /\ pc = "off"
    /\ file = <<>>
    /\ fpos = 0
    /\ data = <<>>
    /\ offset = 0
    /\ arrays = Empty
    /\ indices = Empty
    /\ exc = NoExc
    /\ corpus = <<>>
    /\ truncated = FALSE
    /\ snap = [arrays |-> Empty, indices |-> Empty]
    /\ on_demand = FALSE
    /\ self_data = <<>>
    /\ got = NoGot
    /\ predictions = <<>>
    /\ ev = NoEval

\* arrays, indices = {}, {}; the file is open at its start.
Init ==
    /\ items \in 0..MaxItems
    /\ processed = 0
    /\ pc = "frame"
    /\ file = <<>>
    /\ fpos = 0
    /\ data = <<>>
    /\ offset = 0
    /\ arrays = Empty
    /\ indices = Empty
    /\ exc = NoExc
    /\ corpus = <<>>
    /\ truncated = FALSE
    /\ snap = [arrays |-> Empty, indices |-> Empty]
    /\ on_demand = FALSE
    /\ self_data = <<>>
    /\ got = NoGot
    /\ predictions = <<>>
    /\ ev = NoEval
    /\ MetricIdle
    /\ VarintIdle

\* Lines 102-110: the next frame of the file. What the file holds from here on
\* is an input: a whole frame of some record, or a frame the file ends in.
ReadFrame ==
    /\ pc = "frame"
    /\ processed < items
    /\ \E rec \in Records :
       \E whole \in BOOLEAN :
       \E frame \in {Frame(Payload(rec))} :
       \E cut \in (IF whole THEN {Len(frame)} ELSE Cuts(Len(frame) - 16)) :
       \E stream \in {SubSeq(frame, 1, cut)} :
       \E r \in {ReadRecord(stream)} :
          /\ file' = stream
          /\ truncated' = ~whole
          /\ corpus' = Append(corpus, rec)
          /\ fpos' = fpos + r.consumed
          /\ data' = r.data
          /\ offset' = r.offset
          /\ snap' = [arrays |-> arrays, indices |-> indices]
          /\ IF r.ok
             THEN pc' = "fields" /\ exc' = exc
             ELSE pc' = "fail" /\ exc' = [type |-> r.err, tag |-> 0]
    /\ UNCHANGED <<items, processed, arrays, indices>>
    /\ UNCHANGED <<datasetVars, evalVars, metricVars, varintVars>>

\* Lines 111-134: one pass of the while loop.
DecodeFieldStep ==
    /\ pc = "fields"
    /\ offset < Len(data)
    /\ \E r \in {DecodeField(data, offset, arrays, indices)} :
          /\ arrays' = r.arrays
          /\ indices' = r.indices
          /\ offset' = r.offset
          /\ IF r.ok
             THEN pc' = "fields" /\ exc' = exc
             ELSE pc' = "fail" /\ exc' = [type |-> r.err, tag |-> r.tag]
    /\ UNCHANGED <<items, processed, file, fpos, data, corpus, truncated, snap>>
    /\ UNCHANGED <<datasetVars, evalVars, metricVars, varintVars>>

\* Line 111 with offset >= len(data): the record is done, the for loop goes on.
EndRecord ==
    /\ pc = "fields"
    /\ offset >= Len(data)
    /\ processed' = processed + 1
    /\ pc' = "frame"
    /\ UNCHANGED <<items, file, fpos, data, offset, arrays, indices, exc, corpus,
                   truncated, snap>>
    /\ UNCHANGED <<datasetVars, evalVars, metricVars, varintVars>>

\* Line 135 and Dataset.__init__, lines 27-31: the store is returned after
\* `items` records; the eager dataset decodes every example.
Construct ==
    /\ pc = "frame"
    /\ processed = items
    /\ \E demand \in BOOLEAN :
       \E all \in {IF demand THEN [ok |-> TRUE, err |-> "", list |-> <<>>]
                   ELSE DecodeAll(arrays, indices, items, 0)} :
          /\ on_demand' = demand
          /\ self_data' = all.list
          /\ IF all.ok
             THEN pc' = "ready" /\ exc' = exc
             ELSE pc' = "fail" /\ exc' = [type |-> all.err, tag |-> 0]
    /\ UNCHANGED <<items, processed, file, fpos, data, offset, arrays, indices,
                   corpus, truncated, snap, got>>
    /\ UNCHANGED <<evalVars, metricVars, varintVars>>

\* Lines 36-39: dataset[index] for an index of range(len(dataset)).
GetItemStep ==
    /\ pc = "ready"
    /\ \E index \in 0..(items - 1) :
       \E example \in {GetItem(self_data, on_demand, arrays, indices, index)} :
          got' = [index |-> index, example |-> example]
    /\ UNCHANGED <<loadVars, on_demand, self_data, evalVars, metricVars, varintVars>>

\* The sequences of at most n elements of S.
SeqsUpTo(S, n) == UNION {[1..k -> S] : k \in 0..n}

\* Predicted mark names, one sequence per line of a predictions file.
PredictedLines == {<<>>, <<"clef-C2", "barline", "clef-C3">>}

\* evaluate(dataset, predictions), lines 154-164, on the dataset as built.
EvaluateStep ==
    /\ pc = "ready"
    /\ ~ev.called
    /\ \E preds \in SeqsUpTo(PredictedLines, items + 1) :
       \E r \in {Evaluate(self_data, on_demand, arrays, indices, preds)} :
          /\ predictions' = preds
          /\ ev' = r
    /\ UNCHANGED <<loadVars, datasetVars, metricVars, varintVars>>

Next ==
    \/ ReadFrame
    \/ DecodeFieldStep
    \/ EndRecord
    \/ Construct
    \/ GetItemStep
    \/ EvaluateStep

Spec == Init /\ [][Next]_vars

(***************************************************************************)
(* Properties of the load pass                                             *)
(***************************************************************************)

NonDecreasing(seq) == \A i \in 1..(Len(seq) - 1) : seq[i] <= seq[i + 1]

IsPrefix(a, b) == Len(a) <= Len(b) /\ SubSeq(b, 1, Len(a)) = a

\* C1 (as stated): after K records every key of the store has an index array of
\* exactly K + 1 entries that starts with 0 and is non-decreasing, also for
\* records whose key sets differ or repeat a key.
C1_IndexPerRecord ==
    pc = "frame" =>
        \A key \in DOMAIN indices :
            /\ Len(indices[key]) = processed + 1
            /\ indices[key][1] = 0
            /\ NonDecreasing(indices[key])

\* The slices [index[i], index[i+1]) of a buffer, in order, joined.
JoinedSlices(index, elems) ==
    Concat([i \in 1..(Len(index) - 1) |-> SubSeq(elems, index[i] + 1, index[i + 1])])

\* C2: whenever a value has just been closed (the pass did not raise), every
\* key's last index entry is the element count of its buffer, consecutive
\* entries never decrease, and the slices joined in order are the whole buffer.
C2_SlicesPartitionBuffer ==
    pc \in {"fields", "frame", "ready"} =>
        \A key \in DOMAIN arrays :
            /\ key \in DOMAIN indices
            /\ indices[key][Len(indices[key])] = Len(arrays[key].elems)
            /\ NonDecreasing(indices[key])
            /\ JoinedSlices(indices[key], arrays[key].elems) = arrays[key].elems

\* A key closed three times, once with no element, on a buffer that is not empty.
C2_Witness ==
    /\ pc = "frame"
    /\ KeyMarks \in DOMAIN indices
    /\ indices[KeyMarks] = <<0, 3, 3>>
    /\ arrays[KeyMarks].elems = <<3, 1, 4>>

\* A record as the dataset expects it: an image that is not empty, then the
\* marks as an int64 list.
Uniform(rec) ==
    /\ Len(rec) = 2
    /\ rec[1].key = KeyImage /\ rec[1].kind = "bytes" /\ rec[1].elems # <<>>
    /\ rec[2].key = KeyMarks /\ rec[2].kind = "ints"

AtDispatch ==
    /\ pc = "fields"
    /\ offset < Len(data)
    /\ FieldHead(data, offset).ok
    /\ FieldHead(data, offset).offset < Len(data)

DispatchByte == At(data, FieldHead(data, offset).offset)

DispatchKey == FieldHead(data, offset).key

\* Every key of store `a` is in store `b` with the same typecode, its elements
\* and its index entries a prefix of b's.
StoreKeeps(a, b) ==
    \A key \in DOMAIN a.arrays :
        /\ key \in DOMAIN b.arrays
        /\ b.arrays[key].typecode = a.arrays[key].typecode
        /\ IsPrefix(a.arrays[key].elems, b.arrays[key].elems)
        /\ IsPrefix(a.indices[key], b.indices[key])

\* C4 (as stated): a dispatch byte other than 0x0A, 0x1A, 0x12 raises the
\* unsupported-kind error naming the byte, and the store after the failed
\* attempt is the store as it was before the failing record.
C4_AsStated ==
    [][(AtDispatch /\ DispatchByte \notin {10, 26, 18}) =>
          /\ pc' = "fail"
          /\ exc' = [type |-> "UnsupportedTag", tag |-> DispatchByte]
          /\ [arrays |-> arrays', indices |-> indices'] = snap]_vars

\* C4 (amended): a dispatch byte other than 0x0A, 0x1A, 0x12 raises the
\* unsupported-kind error naming the byte and ends the load; what the store held
\* before the failing record, and before the failing pass, is still there
\* unchanged, as a prefix of every buffer and index.
C4_UnsupportedKindAborts ==
    [][(AtDispatch /\ DispatchByte \notin {10, 26, 18}) =>
          /\ pc' = "fail"
          /\ exc' = [type |-> "UnsupportedTag", tag |-> DispatchByte]
          /\ StoreKeeps(snap, [arrays |-> arrays', indices |-> indices'])
          /\ StoreKeeps([arrays |-> arrays, indices |-> indices],
                        [arrays |-> arrays', indices |-> indices'])]_vars

\* The load failed on byte 0xFF after records had been closed, and the store
\* is not the one the failing record started from.
C4_Witness ==
    /\ pc = "fail"
    /\ exc = [type |-> "UnsupportedTag", tag |-> 255]
    /\ processed >= 1
    /\ KeyMarks \in DOMAIN snap.arrays
    /\ [arrays |-> arrays, indices |-> indices] # snap

\* C5 (as stated): once a key's kind is fixed by its first occurrence, a later
\* occurrence whose dispatch byte selects another kind makes the load fail, and
\* the key's buffer gets no element from it.
C5_KindMismatchFails ==
    [][(/\ AtDispatch
        /\ DispatchKey \in DOMAIN arrays
        /\ DispatchByte \in {10, 26, 18}
        /\ TypecodeFor(DispatchByte) # arrays[DispatchKey].typecode) =>
          /\ pc' = "fail"
          /\ arrays'[DispatchKey] = arrays[DispatchKey]]_vars

\* The bytes of a record's frame: 8 + 4 + L + 4 for a payload of L bytes.
FrameSize == [rec \in Records |-> 8 + 4 + Len(Payload(rec)) + 4]

\* The bytes of the whole frames of a corpus.
RECURSIVE FrameBytes(_)
FrameBytes(recs) ==
    IF recs = <<>> THEN 0
    ELSE FrameSize[Head(recs)] + FrameBytes(Tail(recs))

\* C7: the load reads the frames in order, each as 8 + 4 + L + 4 bytes; a file
\* that ends inside a frame makes the load fail, and the load returns only
\* after `items` whole frames.
C7_ExactFrames ==
    /\ truncated => pc = "fail"
    /\ processed <= items
    /\ pc \in {"fields", "frame", "ready"} => fpos = FrameBytes(corpus)
    /\ pc = "frame" => Len(corpus) = processed
    /\ pc = "ready" => Len(corpus) = items

\* The file ended inside the second of two frames asked for.
C7_Witness ==
    /\ truncated
    /\ pc = "fail"
    /\ items = 2
    /\ processed = 1
    /\ fpos > FrameBytes(SubSeq(corpus, 1, 1))

(***************************************************************************)
(* VarintSpec: get_value on the encoding of a 64-bit value                 *)
(***************************************************************************)

\* The values a group takes in the inputs: all bits clear, one bit, all bits set.
GroupValues == {0, 1, 127}

\* The most bytes in front of the encoding.
MaxPad == 1

\* The unsigned 64-bit values of the inputs: the tenth group is bit 63 alone.
U64Inputs ==
    {g \in [1..NumGroups -> GroupValues] : g[NumGroups] \in {0, 1}}

\* The buffer holds bytes with a set continuation bit in front of the encoding,
\* and one after it.
VarintInit ==
    /\ vin \in U64Inputs
    /\ vstart \in 0..MaxPad
    /\ vdata = [i \in 1..vstart |-> 255] \o EncodeVarint(vin) \o <<255>>
    /\ vres = [ok |-> FALSE, err |-> "", value |-> ZeroGroups, offset |-> 0]
    /\ vpc = "idle"
    /\ LoadIdle
    /\ MetricIdle

CallGetValue ==
    /\ vpc = "idle"
    /\ vres' = GetValue(vdata, vstart)
    /\ vpc' = "called"
    /\ UNCHANGED <<vin, vdata, vstart>>
    /\ UNCHANGED <<loadVars, datasetVars, evalVars, metricVars>>

VarintNext == CallGetValue

VarintSpec == VarintInit /\ [][VarintNext]_vars

GoldNames(recs) == [i \in 1..Len(recs) |-> MarkNames(recs[i][2].elems).names]

\* C8: whenever the number of prediction sequences differs from the number of
\* gold examples that evaluate collected, evaluate raises the size-mismatch
\* error naming both sizes, the metric has received no update and no percentage
\* is returned; a percentage is returned only with one score per gold example.
\* For a corpus of records with image and marks the gold examples are the
\* corpus's records.
C8_SizeMismatchFails ==
    ev.called =>
        /\ (ev.gold_ok /\ Len(predictions) # Len(ev.gold)) =>
              /\ ev.err = "RuntimeError"
              /\ ev.sizes = <<Len(predictions), Len(ev.gold)>>
              /\ ev.scores = <<>>
              /\ ~ev.returned
        /\ ev.returned =>
              /\ Len(predictions) = Len(ev.gold)
              /\ Len(ev.scores) = Len(ev.gold)
        /\ (items >= 1 /\ \A i \in 1..Len(corpus) : Uniform(corpus[i])) =>
              /\ ev.gold_ok
              /\ ev.gold = GoldNames(corpus)

\* Two gold examples against one prediction: the error, and nothing scored.
C8_Witness ==
    /\ ev.called
    /\ Len(corpus) = 2
    /\ \A i \in 1..Len(corpus) : Uniform(corpus[i])
    /\ Len(predictions) = 1
    /\ ev.err = "RuntimeError"
    /\ ev.sizes = <<1, 2>>
    /\ ev.scores = <<>>
    /\ ~ev.returned

(***************************************************************************)
(* MetricSpec: EditDistanceMetric.update on chosen batches                 *)
(***************************************************************************)

Tokens == {0, 1, 2}

\* The longest token sequence of a batch.
MaxSeqLen == 2

\* The most sequences in a batch.
MaxBatch == 2

\* Longer sequences in which the token 0 stands between and after others.
LongSeqs == {<<1, 0, 2>>, <<1, 0, 2, 0>>}

TokenSeqs == SeqsUpTo(Tokens, MaxSeqLen) \cup LongSeqs

\* What a batch holds after its first sequence.
LaterSeqs == {<<>>, <<1, 2>>}

\* The batches: any first sequence, then sequences of LaterSeqs.
Batches ==
    {<<>>} \cup {<<s>> \o rest : s \in TokenSeqs, rest \in SeqsUpTo(LaterSeqs, MaxBatch - 1)}

\* EditDistanceMetric(ignore_index), lines 139-141, with nothing accumulated.
MetricInit ==
    /\ ignore_index \in {<<>>, <<0>>}
    /\ y_preds = <<>>
    /\ y_trues = <<>>
    /\ recorded = <<>>
    /\ mpc = "new"
    /\ predictions = <<>>
    /\ ev = NoEval
    /\ LoadIdle
    /\ VarintIdle

\* metric.update(y_preds, y_trues), lines 143-150.
CallUpdate ==
    /\ mpc = "new"
    /\ \E preds \in Batches :
       \E trues \in Batches :
       \E acc \in {Update(recorded, ignore_index, preds, trues)} :
          /\ y_preds' = preds
          /\ y_trues' = trues
          /\ recorded' = acc
    /\ mpc' = "updated"
    /\ UNCHANGED <<ignore_index, loadVars, datasetVars, evalVars, varintVars>>

MetricNext == CallUpdate

MetricSpec == MetricInit /\ [][MetricNext]_vars

\* C9 (as stated): update called with a different number of predicted than gold
\* sequences reports the mismatch and records no score.
C9_UpdateReportsMismatch ==
    (mpc = "updated" /\ Len(y_preds) # Len(y_trues)) => recorded = <<>>

\* The Levenshtein distance by its definition: unit cost for a substitution, an
\* insertion and a deletion.
RECURSIVE Levenshtein(_, _)
Levenshtein(a, b) ==
    IF a = <<>> THEN Len(b)
    ELSE IF b = <<>> THEN Len(a)
    ELSE Min3(Levenshtein(Tail(a), b) + 1,
              Levenshtein(a, Tail(b)) + 1,
              Levenshtein(Tail(a), Tail(b)) + (IF Head(a) = Head(b) THEN 0 ELSE 1))

\* A sequence without the ignore token, when one is configured.
Kept(seq) ==
    IF ignore_index = <<>> THEN seq
    ELSE SelectSeq(seq, LAMBDA y : y # ignore_index[1])

\* C10: update records exactly one score per pair that it is handed, and the
\* score of pair (predicted, gold) is Levenshtein(predicted, gold) over
\* max(len(gold), 1), both taken after the ignore token is filtered out:
\* 0 for identical sequences, the prediction's length for an empty gold.
C10_ScorePerPair ==
    mpc = "updated" =>
        /\ Len(recorded) = Min(Len(y_preds), Len(y_trues))
        /\ \A k \in 1..Len(recorded) :
              /\ recorded[k][1] = Levenshtein(Kept(y_preds[k]), Kept(y_trues[k]))
              /\ recorded[k][2] = IF Kept(y_trues[k]) = <<>> THEN 1
                                  ELSE Len(Kept(y_trues[k]))
              /\ Kept(y_preds[k]) = Kept(y_trues[k]) => recorded[k][1] = 0
              /\ Kept(y_trues[k]) = <<>> =>
                    recorded[k] = <<Len(Kept(y_preds[k])), 1>>

\* Two pairs scored in one call: a substitution in a gold of two tokens, then
\* an empty gold against a prediction of two tokens.
C10_Witness ==
    /\ mpc = "updated"
    /\ ignore_index = <<>>
    /\ y_preds = << <<1, 2>>, <<1, 2>> >>
    /\ y_trues = << <<1, 0>>, <<>> >>
    /\ recorded = << <<1, 2>>, <<2, 1>> >>

\* The occurrences of a token in a sequence.
Count(seq, tok) == Cardinality({i \in 1..Len(seq) : seq[i] = tok})

\* C11: with an ignore token configured (0 included) the score of a pair is the
\* score, taken without any ignore token, of the two sequences with every
\* occurrence of the token removed, so distance and divisor never see it; with
\* no ignore token configured the score is that of the sequences as given.
C11_IgnoreFiltered ==
    mpc = "updated" =>
        \A k \in 1..Len(recorded) :
            /\ recorded[k] = Score(<<>>, Kept(y_preds[k]), Kept(y_trues[k]))
            /\ ignore_index # <<>> =>
                  /\ Count(Kept(y_preds[k]), ignore_index[1]) = 0
                  /\ Count(Kept(y_trues[k]), ignore_index[1]) = 0
                  /\ Len(Kept(y_trues[k])) =
                        Len(y_trues[k]) - Count(y_trues[k], ignore_index[1])
                  /\ recorded[k][2] = IF Len(Kept(y_trues[k])) = 0 THEN 1
                                      ELSE Len(Kept(y_trues[k]))
            /\ ignore_index = <<>> =>
                  recorded[k] = <<Levenshtein(y_preds[k], y_trues[k]),
                                  IF Len(y_trues[k]) = 0 THEN 1 ELSE Len(y_trues[k])>>

\* Ignore token 0, gold [1, 0, 2] against predicted [1, 0, 2, 0]: distance 0
\* over the two tokens of the filtered gold.
C11_Witness ==
    /\ mpc = "updated"
    /\ ignore_index = <<0>>
    /\ Len(recorded) >= 1
    /\ y_trues[1] = <<1, 0, 2>>
    /\ y_preds[1] = <<1, 0, 2, 0>>
    /\ recorded[1] = <<0, 2>>

(***************************************************************************)
(* The two modes of the dataset                                            *)
(***************************************************************************)

\* What the on-demand dataset of the same file and count returns for index i:
\* the load is a function of the file, so it holds the same arrays and indices.
OnDemandGet(i) == GetItem(<<>>, TRUE, arrays, indices, i)

\* C12: for the same file and count N the eager dataset, once constructed,
\* holds N examples (len() is N in both modes) and get(i), 0 <= i < N, after any
\* earlier gets, returns the example (image bytes and marks) that the on-demand
\* dataset returns; the eager constructor raises just when some on-demand
\* get(i), i < N, would; and a get leaves buffers, indices and cache as they were.
C12_ModesAgree ==
    /\ [](/\ (pc = "ready" /\ ~on_demand) =>
              /\ Len(self_data) = items
              /\ \A i \in 0..(items - 1) :
                    /\ self_data[i + 1].ok
                    /\ self_data[i + 1] = OnDemandGet(i)
          /\ (pc = "ready" /\ got.index >= 0) =>
              got.example = OnDemandGet(got.index)
          /\ (pc = "fail" /\ processed = items) =>
              \E i \in 0..(items - 1) :
                  /\ ~OnDemandGet(i).ok
                  /\ exc.type = OnDemandGet(i).err
                  /\ \A j \in 0..(i - 1) : OnDemandGet(j).ok)
    /\ [][pc = "ready" =>
            /\ arrays' = arrays
            /\ indices' = indices
            /\ self_data' = self_data
            /\ items' = items]_vars

\* The eager dataset of two different records returned its second example
\* after its first.
C12_Witness ==
    /\ pc = "ready"
    /\ ~on_demand
    /\ items = 2
    /\ got.index = 1
    /\ got.example.ok
    /\ got.example.marks = <<>>
    /\ self_data[1].marks = <<3, 1, 4>>
    /\ got.example.image # self_data[1].image

(***************************************************************************)
(* Properties of the value branches                                        *)
(***************************************************************************)

\* The position of the dispatch byte of the pass that is about to run.
DispatchPos == FieldHead(data, offset).offset

\* The first header of the value: the dispatch byte as tag, then its varint.
FirstHeader == GetValueOfKind(data, DispatchPos, DispatchByte)

\* What a second header read right after the first would be: tag 0x0A, varint.
SecondHeader == GetValueOfKind(data, FirstHeader.offset, 10)

\* The pass that is about to run takes one of the three value branches.
AtBranch == AtDispatch /\ DispatchByte \in {10, 26, 18}

\* The elements the pass appended to the buffer of its key.
Appended ==
    SubSeq(arrays'[DispatchKey].elems,
           (IF DispatchKey \in DOMAIN arrays THEN Len(arrays[DispatchKey].elems) ELSE 0) + 1,
           Len(arrays'[DispatchKey].elems))

\* C13 (as stated): in each value branch a pass that does not raise has consumed
\* two tagged headers, also when the first header's value is 0, and the span of
\* its elements has the length the second header gives.
C13_AsStated ==
    [][(AtBranch /\ pc' # "fail") =>
          /\ FirstHeader.ok
          /\ SecondHeader.ok
          /\ offset' >= SecondHeader.offset + SecondHeader.value]_vars

\* C13 (amended): in each value branch the first header is always consumed; the
\* second one (tag 0x0A) is consumed, and gives the span's length, only when the
\* first header's value is not 0; when it is 0 the branch reads no second
\* header and no element and leaves the cursor right after the first header.
C13_HeadersConsumed ==
    [][AtBranch =>
          /\ ~FirstHeader.ok => pc' = "fail"
          /\ (FirstHeader.ok /\ FirstHeader.value # 0 /\ ~SecondHeader.ok) => pc' = "fail"
          /\ (pc' # "fail" /\ FirstHeader.value # 0) =>
                /\ SecondHeader.ok
                /\ offset' >= SecondHeader.offset + SecondHeader.value
                /\ DispatchByte \in {10, 18} =>
                      offset' = SecondHeader.offset + SecondHeader.value
                /\ DispatchByte = 10 =>
                      Appended = Slice(data, SecondHeader.offset,
                                       SecondHeader.offset + SecondHeader.value)
          /\ (FirstHeader.ok /\ FirstHeader.value = 0) =>
                /\ pc' # "fail"
                /\ offset' = FirstHeader.offset
                /\ Appended = <<>>]_vars

\* A record was decoded to its end by a marks value of the two bytes 1A 00.
C13_Witness ==
    /\ pc = "fields"
    /\ offset = Len(data)
    /\ Len(corpus) >= 1
    /\ corpus[Len(corpus)] = <<Img1, Marks0>>
    /\ SubSeq(data, Len(data) - 1, Len(data)) = <<26, 0>>
    /\ indices[KeyMarks][Len(indices[KeyMarks])] = Len(arrays[KeyMarks].elems)

\* Where the span of elements starts and how long it is declared to be.
SpanStart == IF FirstHeader.value = 0 THEN FirstHeader.offset ELSE SecondHeader.offset

SpanLength == IF FirstHeader.value = 0 THEN 0 ELSE SecondHeader.value

\* C14 (as stated): a 0x1A branch with a span of n bytes from position p that
\* does not raise ends with the cursor exactly at p + n.
C14_CursorAtSpanEnd ==
    [][(AtBranch /\ DispatchByte = 26 /\ pc' # "fail") =>
          offset' = SpanStart + SpanLength]_vars

\* C15 (as stated): a 0x0A branch with declared length n that does not raise
\* has appended exactly n bytes and leaves the cursor within the payload.
C15_BytesExactLength ==
    [][(AtBranch /\ DispatchByte = 10 /\ pc' # "fail") =>
          /\ Len(Appended) = SpanLength
          /\ offset' <= Len(data)]_vars

====
